---- MODULE Spec2Model ----
(***************************************************************************)
(* The biogas ETL pipeline: BiogasCSVProcessor (csv_processor.py) streams  *)
(* a CSV file chunk by chunk through process_chunk, main                   *)
(* (load_to_database.py) appends every transformed chunk to the            *)
(* sensor_readings table and finally fills hourly_aggregates with one      *)
(* INSERT ... SELECT ... GROUP BY statement.                               *)
(*                                                                         *)
(* A row maps the columns its file has to cells.  Under Spec the file has  *)
(* `timestamp` and the compressor fault flag; under WideSpec it is drawn   *)
(* from files with further flag, motor-amps and derived-metric columns.    *)
(* An instant is <<hour, part>>: the calendar hour it falls in and its     *)
(* position inside that hour; hour 0 begins at 2024-01-01 00:00 UTC.       *)
(* Timestamp parsing is decided cell by cell.                              *)
(***************************************************************************)
EXTENDS Integers, Sequences, FiniteSets, TLC

\* ------------------------------------------------------------------ bounds
MaxRows == 2        \* data rows of the input file
MaxHour == 1        \* calendar hours 0..MaxHour
MaxPart == 1        \* positions inside one hour 0..MaxPart
MaxChunkSize == 2   \* --chunk-size ranges over 1..MaxChunkSize
BatchSize == 1      \* rows per INSERT of to_sql (batch_size, scaled down)
MaxRuns == 2        \* invocations of an entry point in one behaviour
MaxSample == 2      \* sample_chunks ranges over 0..MaxSample
MaxFaults == 50     \* true fault flags of one row beyond the two named columns
MaxAmps == 10000    \* motor amps range over -MaxAmps..MaxAmps
MaxOffset == 1      \* zone offsets range over -MaxOffset..MaxOffset hours
MaxChunks == 6      \* chunk counts 1..MaxChunks in the index arithmetic

VARIABLES
    fileExists,         \* the path given as --input exists
    fileRows,           \* the data rows of the file (below its header)
    dbCreated,          \* create_database has run: the tables exist
    sensor_readings,    \* table sensor_readings, in id order
    hourly_aggregates,  \* table hourly_aggregates, in id order
    pc,                 \* position of the running entry point
    caller,             \* which entry point is running
    args,               \* its parsed command line
    chunk_count,        \* main: chunk_count
    total_rows,         \* main: total_rows
    est_rows,           \* processor.total_rows (the estimate)
    processed_rows,     \* processor.processed_rows
    chunks_read,        \* chunks the read_csv iterator has handed out
    chunk_df,           \* the transformed chunk the generator yielded last
    exit,               \* <<>> while running, <<code>> once the run ended
    err,                \* the exception that ended the run, "" if none
    reported,           \* the row count the run's output states, <<>> if none
    validation,         \* what validate_csv returned last, and its inputs
    base_rows,          \* history: rows of sensor_readings when the run began
    runs,               \* entry points started so far
    legacy_sum,         \* the installed pandas is older than 2.0
    time_range,         \* <<start_time, end_time>> of the last aggregation or summary
    summary             \* the last response of /api/system/summary

vars == <<fileExists, fileRows, dbCreated, sensor_readings, hourly_aggregates,
          pc, caller, args, chunk_count, total_rows, est_rows, processed_rows,
          chunks_read, chunk_df, exit, err, reported, validation, base_rows, runs,
          legacy_sum, time_range, summary>>

\* ------------------------------------------------------------- input file
Instants == (0..MaxHour) \X (0..MaxPart)

NaT == <<-1, -1>>

\* A raw timestamp cell: text that parses to an instant, text that does not,
\* or an empty cell.  The text of an instant gives a wall-clock time `at` and
\* how many hours `offset` its zone is ahead of UTC; text without a zone
\* counts as UTC.
RawTimestamps ==
    [kind : {"instant"}, at : Instants, offset : {0}]
        \cup {[kind |-> "garbage", at |-> NaT, offset |-> 0],
              [kind |-> "missing", at |-> NaT, offset |-> 0]}

\* A raw flag cell: the well-formed letters and one other value.
FlagCells == {"t", "f", "x"}

RawRows == [timestamp : RawTimestamps, bop_plc_vl_comp_faultstatus : FlagCells]

Files == UNION {[1..n -> RawRows] : n \in 0..MaxRows}

Min(a, b) == IF a <= b THEN a ELSE b

Max(a, b) == IF a >= b THEN a ELSE b

MinOf(S) == CHOOSE x \in S : \A y \in S : x <= y

RECURSIVE SumOver(_, _)
SumOver(f, S) ==
    IF S = {} THEN 0
    ELSE LET x == CHOOSE y \in S : TRUE IN f[x] + SumOver(f, S \ {x})

\* ---------------------------------------------------------------- columns
\* A row is a function from the names of the file's columns to cells.  The
\* cell of a flag column is text, "" when it is empty; the cell of a numeric
\* column is a number, NaN when it is empty.  Numbers are integers: the
\* numeric cells range over values on which the arithmetic below is exact.
NaN == -1000000

\* A quotient is <<numerator, denominator>>, as float division leaves it:
\* <<0, 0>> is NaN and <<n, 0>> an infinity.
NaNRatio == <<0, 0>>

\* The on/off columns of SENSOR_COLUMN_MAPPING the model carries.
FlagColumns ==
    {"bop_plc_vl_comp_faultstatus", "bop_plc_bge_blowervfd_faultstatus",
     "bop_plc_vl_comp_runstatus"}

\* [col for col in df.columns if 'fault' in col.lower()].  other_fault_flags
\* stands for the further fault columns a file may have, already boolean:
\* its cell is the number of them that are true in the row.
FaultColumns ==
    {"bop_plc_vl_comp_faultstatus", "bop_plc_bge_blowervfd_faultstatus",
     "other_fault_flags"}

Range(f) == {f[x] : x \in DOMAIN f}

Columns(chunk) == UNION {DOMAIN chunk[i] : i \in 1..Len(chunk)}

\* ---------------------------------------------------------- process_chunk
\* Mutant: the wall-clock time is kept, the zone offset dropped.
KeepsWallClock(cell) == IF cell.kind = "instant" THEN cell.at ELSE NaT

\* pd.to_datetime(..., errors='coerce', utc=True) on one cell: the instant
\* in UTC.  tz_localize(None) then only strips the zone.
ToDatetime(cell) ==
    IF cell.kind = "instant" THEN <<cell.at[1] - cell.offset, cell.at[2]>> ELSE NaT

\* Mutant: the rows without a timestamp are kept.
KeepsEveryRow(row) == TRUE

\* chunk_df.dropna(subset=['timestamp'])
DropNaKeeps(row) == row.timestamp # NaT

DropNa(chunk) == SelectSeq(chunk, DropNaKeeps)

\* The values set(unique_vals) is compared with; a missing cell shows up in
\* unique() as NaN, which is not None, so None never matches.
BoolLetters == {"t", "f", "T", "F"}

\* chunk_df[col].map({'t': True, 'T': True, 'f': False, 'F': False})
\* a value that is no key of the dict maps to NaN
BoolMap(v) ==
    IF v \in {"t", "T"} THEN "True" ELSE IF v \in {"f", "F"} THEN "False" ELSE ""

ColumnValues(chunk, col) == {chunk[i][col] : i \in 1..Len(chunk)}

IsBoolColumn(chunk, col) == ColumnValues(chunk, col) \subseteq BoolLetters

\* The loop over the object columns.
CoerceBooleans(chunk) ==
    [i \in 1..Len(chunk) |->
        [c \in DOMAIN chunk[i] |->
            IF c \in FlagColumns /\ IsBoolColumn(chunk, c)
            THEN BoolMap(chunk[i][c])
            ELSE chunk[i][c]]]

\* Hour 0 is the hour from 2024-01-01 00:00, a Monday; the instants of the
\* model lie in December 2023 and January 2024, months of 31 days.
DayOf(ts) == ts[1] \div 24

\* .dt.hour
HourOfDay(ts) == ts[1] % 24

\* .dt.dayofweek, Monday is 0
DayOfWeek(ts) == DayOf(ts) % 7

\* .dt.day
DayOfMonth(ts) == ((DayOf(ts) + 31) % 31) + 1

TimeFeatures == {"hour", "day_of_week", "day_of_month"}

WithTimeFeatures(row) ==
    [c \in DOMAIN row \cup TimeFeatures |->
        CASE c = "hour" -> HourOfDay(row.timestamp)
          [] c = "day_of_week" -> DayOfWeek(row.timestamp)
          [] c = "day_of_month" -> DayOfMonth(row.timestamp)
          [] OTHER -> row[c]]

\* ----------------------------------------------- _calculate_derived_metrics
\* Mutant: both terms weigh the same.
EqualWeights(row) ==
    LET ch4 == row["bop_plc_abb_gc_outletstream_ch4"]
        co2 == row["bop_plc_abb_gc_outletstream_co2"]
    IN  IF ch4 = NaN \/ co2 = NaN THEN NaN ELSE (ch4 + (100 - co2)) \div 2

\* ch4 * 0.7 + (100 - co2) * 0.3
GasQualityScore(row) ==
    LET ch4 == row["bop_plc_abb_gc_outletstream_ch4"]
        co2 == row["bop_plc_abb_gc_outletstream_co2"]
    IN  IF ch4 = NaN \/ co2 = NaN THEN NaN
        ELSE (ch4 * 7 + (100 - co2) * 3) \div 10

\* discharge_pressure / (mainmotor_amps + 1)
CompressorEfficiency(row) ==
    LET p == row["bop_plc_vl_comp_discharge_pressure"]
        a == row["bop_plc_vl_comp_mainmotor_amps"]
    IN  IF p = NaN \/ a = NaN THEN NaNRatio ELSE <<p, a + 1>>

\* discharge_temp - suction_temp
TempDifferential(row) ==
    LET d == row["bop_plc_vl_comp_discharge_temp"]
        s == row["bop_plc_vl_comp_suction_temp"]
    IN  IF d = NaN \/ s = NaN THEN NaN ELSE d - s

\* Mutant: the suction pressure divides without the offset.
DividesBySuction(row) ==
    LET p == row["bop_plc_vl_comp_discharge_pressure"]
        s == row["bop_plc_vl_comp_suction_pressure"]
    IN  IF p = NaN \/ s = NaN THEN NaNRatio ELSE <<10 * p, 10 * s>>

\* discharge_pressure / (suction_pressure + 0.1), both sides in tenths
PressureRatio(row) ==
    LET p == row["bop_plc_vl_comp_discharge_pressure"]
        s == row["bop_plc_vl_comp_suction_pressure"]
    IN  IF p = NaN \/ s = NaN THEN NaNRatio ELSE <<10 * p, 10 * s + 1>>

\* The four metrics that are computed when both of their columns are there.
DerivedInputs ==
    [gas_quality_score |->
        {"bop_plc_abb_gc_outletstream_ch4", "bop_plc_abb_gc_outletstream_co2"},
     compressor_efficiency |->
        {"bop_plc_vl_comp_discharge_pressure", "bop_plc_vl_comp_mainmotor_amps"},
     temp_differential |->
        {"bop_plc_vl_comp_discharge_temp", "bop_plc_vl_comp_suction_temp"},
     pressure_ratio |->
        {"bop_plc_vl_comp_discharge_pressure", "bop_plc_vl_comp_suction_pressure"}]

DerivedPresent(row) ==
    {m \in DOMAIN DerivedInputs : DerivedInputs[m] \subseteq DOMAIN row}

DerivedValue(row, m) ==
    CASE m = "gas_quality_score" -> GasQualityScore(row)
      [] m = "compressor_efficiency" -> CompressorEfficiency(row)
      [] m = "temp_differential" -> TempDifferential(row)
      [] m = "pressure_ratio" -> PressureRatio(row)

\* Mutant: the score is not clipped.
NoClip(x) == x

\* clip(0, 100)
Clip(x) == Max(0, Min(100, x))

\* A cell of a flag column that is neither empty nor a boolean.
IsText(v) == v \notin {"", "True", "False"}

FaultCols(row) == DOMAIN row \cap FaultColumns

TextFaults(row) == {c \in FaultCols(row) \cap FlagColumns : IsText(row[c])}

\* Adding up one row of df[fault_cols] itself raises TypeError when text
\* meets a boolean, a number or an empty cell (which counts as 0).
SumRaises(chunk) ==
    \E i \in 1..Len(chunk) :
        TextFaults(chunk[i]) # {} /\ FaultCols(chunk[i]) # TextFaults(chunk[i])

\* The fault columns of the chunk that hold no text.
SummedColumns(chunk) ==
    {c \in Columns(chunk) \cap FaultColumns :
        c \in FlagColumns => \A i \in 1..Len(chunk) : ~IsText(chunk[i][c])}

\* What a cell adds to df[fault_cols].sum(axis=1): an empty cell is skipped.
CellCount(c, v) ==
    IF c \in FlagColumns THEN (IF v = "True" THEN 1 ELSE 0)
    ELSE IF v = NaN THEN 0 ELSE v

FaultSum(row, cols) == SumOver([c \in cols |-> CellCount(c, row[c])], cols)

\* fault_score = 100 - (df[fault_cols].sum(axis=1) * 10)
FaultScore(row, cols) == 100 - FaultSum(row, cols) * 10

\* The fault score raises TypeError when a fault column was left as text:
\* in the row sum, or in 100 - (text * 10).  A pandas before 2.0
\* (legacy_sum) answers a TypeError in the row sum by summing the columns
\* without text only.
HealthRaises(chunk, legacy) ==
    /\ \E i \in 1..Len(chunk) : TextFaults(chunk[i]) # {}
    /\ ~(legacy /\ SumRaises(chunk))

\* current_score = 100 - (mainmotor_amps / 100 * 20)
CurrentScore(row) ==
    LET a == row["bop_plc_vl_comp_mainmotor_amps"]
    IN  IF a = NaN THEN NaN ELSE 100 - (a * 20) \div 100

\* health_factors, in the order they are appended
HealthFactors(row, cols) ==
    (IF FaultCols(row) # {} THEN <<FaultScore(row, cols)>> ELSE <<>>)
        \o (IF "bop_plc_vl_comp_mainmotor_amps" \in DOMAIN row
            THEN <<CurrentScore(row)>> ELSE <<>>)

\* np.mean(health_factors, axis=0) for one row: NaN as soon as a factor is.
MeanOf(factors) ==
    IF \E k \in 1..Len(factors) : factors[k] = NaN THEN NaN
    ELSE SumOver(factors, 1..Len(factors)) \div Len(factors)

\* np.mean(...) and .clip(0, 100), which leaves NaN as it is
SystemHealthScore(row, cols) ==
    LET m == MeanOf(HealthFactors(row, cols))
    IN  IF m = NaN THEN NaN ELSE Clip(m)

\* _calculate_derived_metrics on one row of a chunk whose fault columns
\* `cols` enter the sum.
WithDerivedMetrics(row, cols) ==
    LET derived == DerivedPresent(row)
        health == IF HealthFactors(row, cols) # <<>>
                  THEN {"system_health_score"} ELSE {}
    IN  [c \in DOMAIN row \cup derived \cup health |->
            IF c \in DOMAIN row THEN row[c]
            ELSE IF c = "system_health_score" THEN SystemHealthScore(row, cols)
            ELSE DerivedValue(row, c)]

ParseTimestamps(chunk) ==
    [i \in 1..Len(chunk) |-> [chunk[i] EXCEPT !.timestamp = ToDatetime(@)]]

\* process_chunk: the transformed rows, or the exception it raises.
ProcessChunk(chunk, legacy) ==
    LET kept == DropNa(ParseTimestamps(chunk))
        timed == [i \in 1..Len(kept) |-> WithTimeFeatures(kept[i])]
        b == CoerceBooleans(timed)
    IN  IF HealthRaises(b, legacy)
        THEN [raised |-> TRUE, rows |-> <<>>]
        ELSE [raised |-> FALSE,
              rows |-> [i \in 1..Len(b) |->
                          WithDerivedMetrics(b[i], SummedColumns(b))]]

\* ----------------------------------------------------------- process_file
\* Mutant: a last chunk shorter than the chunk size comes out empty.
DropsPartialChunk(rows, cs, k) ==
    IF k * cs <= Len(rows) THEN SubSeq(rows, (k - 1) * cs + 1, k * cs) ELSE <<>>

\* The rows of chunk k (1-based) that read_csv(chunksize=cs) hands out.
RawChunk(rows, cs, k) == SubSeq(rows, (k - 1) * cs + 1, Min(k * cs, Len(rows)))

NumChunks(rows, cs) == (Len(rows) + cs - 1) \div cs

\* estimate_total_rows on a file whose rows have one width: np.mean of an
\* empty sample is NaN and int(NaN) raises ValueError.
EstimateRaises(rows) == rows = <<>>

EstimateTotalRows(rows) == Len(rows)

\* ------------------------------------------------------------ validate_csv
\* Mutant: the first sample_chunks chunks are taken.
FirstChunks(total_chunks, sample_chunks) == [i \in 1..sample_chunks |-> i - 1]

\* chunk_indices = [int(i * total_chunks / sample_chunks) for i in range(...)]
\* as the list it is, 0-based chunk numbers.
ChunkIndices(total_chunks, sample_chunks) ==
    [i \in 1..sample_chunks |-> ((i - 1) * total_chunks) \div sample_chunks]

\* How many of the file's n chunks the loop takes from the iterator: it
\* breaks after an inspected chunk that no index lies behind, and otherwise
\* runs to the end of the file.
ChunksIterated(chunk_indices, n) ==
    LET last == {i \in 0..(n - 1) :
                    /\ \E k \in 1..Len(chunk_indices) : chunk_indices[k] = i
                    /\ Cardinality({k \in 1..Len(chunk_indices) : chunk_indices[k] <= i})
                          >= Len(chunk_indices)}
    IN  IF last = {} THEN n ELSE MinOf(last) + 1

\* Mutant: isna() taken before the parse counts the empty cells only.
CountsEmptyCellsOnly(chunk) ==
    Cardinality({i \in 1..Len(chunk) : chunk[i].timestamp.kind = "missing"})

\* timestamps.isna().sum() after pd.to_datetime(..., errors='coerce')
InvalidTimestamps(chunk) ==
    Cardinality({i \in 1..Len(chunk) : ToDatetime(chunk[i].timestamp) = NaT})

\* chunk_df.isnull().sum() for the timestamp column
MissingTimestamps(chunk) ==
    Cardinality({i \in 1..Len(chunk) : chunk[i].timestamp.kind = "missing"})

\* Mutant: no warning is recorded.
NoWarnings(rows, cs, sampled) == <<>>

RECURSIVE Warnings(_, _, _)
\* One warning per sampled chunk with invalid timestamps, in file order.
Warnings(rows, cs, sampled) ==
    IF sampled = {} THEN <<>>
    ELSE LET k == CHOOSE x \in sampled : \A y \in sampled : x <= y
             n == InvalidTimestamps(RawChunk(rows, cs, k + 1))
         IN  (IF n > 0 THEN <<[chunk |-> k + 1, invalid |-> n]>> ELSE <<>>)
                 \o Warnings(rows, cs, sampled \ {k})

\* Besides the result and the arguments of the call: the exception caught
\* inside, the locals total_chunks and chunk_indices, the chunks taken from
\* the iterator and the 0-based numbers of the chunks inspected.
NoValidation ==
    [returned |-> "never", caught |-> "", chunk_size |-> 0, sample_chunks |-> 0,
     total_rows_sampled |-> 0, timestamp_issues |-> 0, missing_values |-> 0,
     warnings |-> <<>>,
     total_chunks |-> 0, chunk_indices |-> <<>>, iterated |-> 0, inspected |-> {}]

\* The exception raised inside validate_csv's try block: by open() for a
\* missing file, by a read of the file (readFails), by the estimate.
ValidationError(exists, rows, readFails) ==
    IF ~exists THEN "FileNotFoundError"
    ELSE IF readFails THEN "ReadError"
    ELSE IF EstimateRaises(rows) THEN "ValueError"
    ELSE ""

\* validate_csv: its result dict, or None when anything in it raised.
ValidateCsv(exists, rows, cs, sample, readFails) ==
    IF ValidationError(exists, rows, readFails) # ""
    THEN [NoValidation EXCEPT !.returned = "None", !.chunk_size = cs,
                              !.sample_chunks = sample,
                              !.caught = ValidationError(exists, rows, readFails)]
    ELSE LET total_chunks == EstimateTotalRows(rows) \div cs + 1
             s == Min(sample, total_chunks)
             chunk_indices == ChunkIndices(total_chunks, s)
             iterated == ChunksIterated(chunk_indices, NumChunks(rows, cs))
             sampled == {k \in Range(chunk_indices) : k < iterated}
             chunkAt == [k \in sampled |-> RawChunk(rows, cs, k + 1)]
         IN  [returned |-> "dict", caught |-> "",
              chunk_size |-> cs, sample_chunks |-> sample,
              total_chunks |-> total_chunks, chunk_indices |-> chunk_indices,
              iterated |-> iterated, inspected |-> sampled,
              total_rows_sampled |->
                  SumOver([k \in sampled |-> Len(chunkAt[k])], sampled),
              timestamp_issues |->
                  SumOver([k \in sampled |-> InvalidTimestamps(chunkAt[k])], sampled),
              missing_values |->
                  SumOver([k \in sampled |-> MissingTimestamps(chunkAt[k])], sampled),
              warnings |-> Warnings(rows, cs, sampled)]

\* ------------------------------------------------------- load_chunk_to_db
\* SENSOR_COLUMN_MAPPING, for the columns the model carries.
SENSOR_COLUMN_MAPPING ==
    [bop_plc_abb_gc_outletstream_ch4 |-> "ch4_percent",
     bop_plc_abb_gc_outletstream_co2 |-> "co2_percent",
     bop_plc_vl_comp_discharge_pressure |-> "comp_discharge_pressure",
     bop_plc_vl_comp_discharge_temp |-> "comp_discharge_temp",
     bop_plc_vl_comp_suction_pressure |-> "comp_suction_pressure",
     bop_plc_vl_comp_suction_temp |-> "comp_suction_temp",
     bop_plc_vl_comp_mainmotor_amps |-> "comp_motor_amps",
     bop_plc_vl_comp_runstatus |-> "comp_running",
     bop_plc_vl_comp_faultstatus |-> "comp_fault",
     bop_plc_bge_blowervfd_faultstatus |-> "blower_fault"]

\* The columns map_columns copies under their own name.
KeptColumns ==
    {"timestamp", "hour", "day_of_week", "day_of_month",
     "gas_quality_score", "compressor_efficiency",
     "temp_differential", "pressure_ratio", "system_health_score"}

\* The raw column that is stored as db_col.
RawColumnOf(db_col) ==
    IF db_col \in KeptColumns THEN db_col
    ELSE CHOOSE c \in DOMAIN SENSOR_COLUMN_MAPPING :
            SENSOR_COLUMN_MAPPING[c] = db_col

\* The columns of table sensor_readings the model carries (without id).
TableColumns ==
    KeptColumns \cup {SENSOR_COLUMN_MAPPING[c] : c \in DOMAIN SENSOR_COLUMN_MAPPING}

\* Mutant: a column the INSERT does not name gets a zero, not NULL.
DefaultsToZero(db_col) ==
    IF db_col = "timestamp" THEN NaT
    ELSE IF db_col \in {"comp_running", "comp_fault", "blower_fault"} THEN "False"
    ELSE IF db_col \in {"compressor_efficiency", "pressure_ratio"} THEN <<0, 1>>
    ELSE 0

\* NULL in a column of sensor_readings; pandas writes NaN as NULL.
Null(db_col) ==
    IF db_col = "timestamp" THEN NaT
    ELSE IF db_col \in {"comp_running", "comp_fault", "blower_fault"} THEN ""
    ELSE IF db_col \in {"compressor_efficiency", "pressure_ratio"} THEN NaNRatio
    ELSE NaN

\* map_columns: the columns of sensor_readings the chunk has a value for.
MappedColumns(row) == {c \in TableColumns : RawColumnOf(c) \in DOMAIN row}

\* map_columns followed by the INSERT of the row, which leaves every column
\* it does not name NULL.
MapColumns(row) ==
    [c \in TableColumns |->
        IF c \in MappedColumns(row) THEN row[RawColumnOf(c)] ELSE Null(c)]

NumBatches(rows) == (Len(rows) + BatchSize - 1) \div BatchSize

\* The rows the INSERTs before batch failAt have written.
WrittenBefore(rows, failAt) ==
    SubSeq(rows, 1, Min((failAt - 1) * BatchSize, Len(rows)))

\* Mutant: every batch is committed as it is written.
CommitsEachBatch(table, written, ok) == table \o written

\* to_sql runs all its batches in one transaction: commit, or roll back.
RunTransaction(table, written, ok) == IF ok THEN table \o written ELSE table

\* sensor_readings.timestamp is nullable=False: the INSERT of a row without
\* a timestamp fails.
NotNullViolation(rows) == \E i \in 1..Len(rows) : rows[i].timestamp = NaT

\* Mutant: a row whose content is already stored is not written again.
SkipsStoredRows(chunk, table, failAt) ==
    LET mapped == [i \in 1..Len(chunk) |-> MapColumns(chunk[i])]
        fresh == SelectSeq(mapped, LAMBDA r : \A k \in 1..Len(table) : table[k] # r)
    IN  [raised |-> failAt # 0,
         table |-> IF failAt = 0 THEN table \o fresh ELSE table]

\* load_chunk_to_db; failAt = 0: the storage layer does not fail,
\* failAt = j: it fails in batch j.
LoadChunkToDb(chunk, table, failAt) ==
    LET mapped == [i \in 1..Len(chunk) |-> MapColumns(chunk[i])]
        ok == failAt = 0 /\ ~NotNullViolation(mapped)
    IN  [raised |-> ~ok,
         table |-> RunTransaction(table,
                      IF failAt = 0 THEN mapped ELSE WrittenBefore(mapped, failAt),
                      ok)]

\* Mutant: the loop stops after the first chunk whatever the mode.
StopsAfterFirstChunk(test_mode, count) ==
    IF count >= 1 THEN "aggregate" ELSE "next_chunk"

\* Mutant: --test-mode does not end the loop.
IgnoresTestMode(test_mode, count) == "next_chunk"

\* The end of the loop body: test mode stops after the first chunk.
AfterLoad(test_mode, count) ==
    IF test_mode /\ count >= 1 THEN "aggregate" ELSE "next_chunk"

\* -------------------------------------------- calculate_hourly_aggregates
\* Mutant: the minutes are kept.
KeepsMinutes(ts) == ts

\* datetime(strftime('%Y-%m-%d %H:00:00', timestamp))
HourTruncate(ts) == <<ts[1], 0>>

GroupKeys(readings) ==
    {HourTruncate(readings[i].timestamp) : i \in 1..Len(readings)}

\* MIN(system_health_score): NULL is skipped, and is the result when every
\* score of the hour is NULL.
MinScore(scores) == IF scores \ {NaN} = {} THEN NaN ELSE MinOf(scores \ {NaN})

\* Mutant: the divisor counts the readings that have a run status.
UptimeOfValued(readings, idx) ==
    <<Cardinality({i \in idx : readings[i].comp_running = "True"}) * 100,
      Cardinality({i \in idx : readings[i].comp_running # ""})>>

\* SUM(CASE WHEN comp_running = 1 THEN 1 ELSE 0 END) * 100.0 / COUNT(*)
UptimePercentage(readings, idx) ==
    <<Cardinality({i \in idx : readings[i].comp_running = "True"}) * 100,
      Cardinality(idx)>>

\* Mutant: each of the two flags is counted on its own.
CountsEachFlag(readings, idx) ==
    Cardinality({i \in idx : readings[i].comp_fault = "True"})
        + Cardinality({i \in idx : readings[i].blower_fault = "True"})

\* SUM(CASE WHEN comp_fault = 1 OR blower_fault = 1 THEN 1 ELSE 0 END)
FaultCount(readings, idx) ==
    Cardinality({i \in idx : \/ readings[i].comp_fault = "True"
                             \/ readings[i].blower_fault = "True"})

\* Mutant: null_count counts the readings without methane of every hour.
NullsOfAllHours(readings, hr) ==
    LET idx == {i \in 1..Len(readings) : HourTruncate(readings[i].timestamp) = hr}
    IN  [timestamp |-> hr,
         min_health_score |-> MinScore({readings[i].system_health_score : i \in idx}),
         fault_count |-> FaultCount(readings, idx),
         uptime_percentage |-> UptimePercentage(readings, idx),
         reading_count |-> Cardinality(idx),
         null_count |->
            Cardinality({i \in 1..Len(readings) : readings[i].ch4_percent = NaN})]

\* One row of the SELECT ... GROUP BY hour_timestamp.
AggregateRow(readings, hr) ==
    LET idx == {i \in 1..Len(readings) : HourTruncate(readings[i].timestamp) = hr}
    IN  [timestamp |-> hr,
         min_health_score |-> MinScore({readings[i].system_health_score : i \in idx}),
         fault_count |-> FaultCount(readings, idx),
         uptime_percentage |-> UptimePercentage(readings, idx),
         reading_count |-> Cardinality(idx),
         null_count |-> Cardinality({i \in idx : readings[i].ch4_percent = NaN})]

RECURSIVE GroupRows(_, _)
\* The SELECT's rows, one per hour in `keys`, in ascending hour order.
GroupRows(readings, keys) ==
    IF keys = {} THEN <<>>
    ELSE LET first == CHOOSE k \in keys : \A o \in keys : k[1] <= o[1]
         IN  <<AggregateRow(readings, first)>> \o GroupRows(readings, keys \ {first})

Timestamps(table) == {table[i].timestamp : i \in 1..Len(table)}

\* Mutant: the timestamp column carries no unique constraint.
NoUniqueConstraint(table, rows) == FALSE

\* hourly_aggregates.timestamp is unique=True: a plain INSERT of an hour that
\* is already there fails the statement.
UniqueViolation(table, rows) == Timestamps(table) \cap Timestamps(rows) # {}

\* Mutant: the rows of a failing statement stay in the table.
InsertsDespiteFailure(table, rows, fails) == table \o rows

\* The INSERT statement: all rows, or none and IntegrityError / storage error.
InsertRows(table, rows, fails) ==
    IF fails THEN table ELSE table \o rows

\* What the statement raises: a storage failure, or the constraint.
AggregateError(table, rows, storageFails) ==
    IF storageFails THEN "OperationalError"
    ELSE IF UniqueViolation(table, rows) THEN "IntegrityError"
    ELSE ""

\* calculate_hourly_aggregates: its statement has no WHERE clause, start_time
\* and end_time are not used.
CalculateHourlyAggregates(readings, table, start_time, end_time, storageFails) ==
    LET rows == GroupRows(readings, GroupKeys(readings))
        error == AggregateError(table, rows, storageFails)
    IN  [raised |-> error # "", error |-> error,
         table |-> InsertRows(table, rows, error # "")]

\* --------------------------------------------------------- system_summary
\* timestamp.between(start_time, end_time)
Between(ts, start_time, end_time) ==
    /\ start_time[1] < ts[1] \/ (start_time[1] = ts[1] /\ start_time[2] <= ts[2])
    /\ ts[1] < end_time[1] \/ (ts[1] = end_time[1] /\ ts[2] <= end_time[2])

InRange(readings, start_time, end_time) ==
    {i \in 1..Len(readings) : Between(readings[i].timestamp, start_time, end_time)}

\* No response yet; also the shape of a response that carries no data.
NoSummary == [status |-> 0, uptime_percentage |-> <<0, 1>>, data_points |-> 0]

\* (running_count / total_count * 100) if total_count > 0 else 0
UptimePct(running_count, total_count) ==
    IF total_count > 0 THEN <<running_count * 100, total_count>> ELSE <<0, 1>>

\* The uptime part of system_summary: SUM(CAST(comp_running AS INTEGER)) is
\* NULL when no row has a value, and NULL / total_count raises TypeError,
\* which the handler answers with status 500.
SystemSummary(readings, start_time, end_time) ==
    LET idx == InRange(readings, start_time, end_time)
        valued == {i \in idx : readings[i].comp_running # ""}
        running_count ==
            Cardinality({i \in valued : readings[i].comp_running = "True"})
        total_count == Cardinality(idx)
    IN  IF total_count > 0 /\ valued = {}
        THEN [NoSummary EXCEPT !.status = 500]
        ELSE [status |-> 200,
              uptime_percentage |-> UptimePct(running_count, total_count),
              data_points |-> total_count]

\* ------------------------------------------------------------------- Init
NoArgs == [chunk_size |-> 1, test_mode |-> FALSE, skip_aggregates |-> FALSE]

\* start_time=None, end_time=None
NoRange == <<NaT, NaT>>

\* Nothing is running and nothing has run.
Quiet ==
    /\ sensor_readings = <<>>
    /\ hourly_aggregates = <<>>
    /\ pc = "idle"
    /\ caller = ""
    /\ args = NoArgs
    /\ chunk_count = 0
    /\ total_rows = 0
    /\ est_rows = 0
    /\ processed_rows = 0
    /\ chunks_read = 0
    /\ chunk_df = <<>>
    /\ exit = <<>>
    /\ err = ""
    /\ reported = <<>>
    /\ validation = NoValidation
    /\ base_rows = 0
    /\ time_range = NoRange
    /\ summary = NoSummary
    /\ legacy_sum \in BOOLEAN

Init ==
    /\ fileExists \in BOOLEAN
    /\ fileRows \in Files
    /\ (~fileExists => fileRows = <<>>)
    /\ dbCreated = FALSE
    /\ runs = 0
    /\ Quiet

\* ------------------------------------------------------------- wide files
\* Files with more columns than the two of Files, followed through one run
\* of an entry point.  Their timestamps all parse; the first row lies in
\* hour 0.
Restrict(row, cols) == [c \in cols |-> row[c]]

WideTimestamps ==
    {[kind |-> "instant", at |-> <<h, 0>>, offset |-> 0] : h \in 0..MaxHour}

\* The files of one or two rows from `rows` with the same columns.
FilesOf(rows) ==
    LET first == {r \in rows : r.timestamp.at = <<0, 0>>}
    IN  {<<r>> : r \in first}
            \cup UNION {{<<r, q>> : q \in {x \in rows : DOMAIN x = DOMAIN r}} :
                           r \in first}

\* The three on/off columns, with empty cells and, in the run status, another
\* spelling and another value.
FlagRows ==
    [timestamp : WideTimestamps,
     bop_plc_vl_comp_faultstatus : {"t", "f", ""},
     bop_plc_bge_blowervfd_faultstatus : {"t", "f", ""},
     bop_plc_vl_comp_runstatus : {"t", "F", "", "x"}]

\* The inputs of system_health_score, each column there or not.
HealthRows ==
    LET full == [timestamp : {[kind |-> "instant", at |-> <<0, 0>>, offset |-> 0]},
                 bop_plc_vl_comp_faultstatus : {"t", "f", ""},
                 other_fault_flags : {0, MaxFaults},
                 bop_plc_vl_comp_mainmotor_amps : {NaN, 0, MaxAmps, 0 - MaxAmps}]
    IN  {Restrict(r, cols \cup {"timestamp"}) :
            r \in full,
            cols \in SUBSET {"bop_plc_vl_comp_faultstatus", "other_fault_flags",
                             "bop_plc_vl_comp_mainmotor_amps"}}

\* The inputs of the other derived metrics, each column there or not.
SchemaRows ==
    LET full == [timestamp : {[kind |-> "instant", at |-> <<0, 0>>, offset |-> 0]},
                 bop_plc_abb_gc_outletstream_ch4 : {70, 100, NaN},
                 bop_plc_abb_gc_outletstream_co2 : {20, 0, NaN},
                 bop_plc_vl_comp_discharge_pressure : {100},
                 bop_plc_vl_comp_discharge_temp : {80},
                 bop_plc_vl_comp_suction_temp : {30},
                 bop_plc_vl_comp_suction_pressure : {0},
                 bop_plc_vl_comp_mainmotor_amps : {0, 0 - 1, NaN}]
    IN  {Restrict(r, cols \cup {"timestamp"}) :
            r \in full, cols \in SUBSET (UNION Range(DerivedInputs))}

\* Timestamps with a zone, around the turn of a day, a month and a week:
\* the wall-clock hours before and after the midnights that begin and end
\* 1 January, in zones up to MaxOffset hours off UTC.
ZoneRows ==
    [timestamp : {[kind |-> "instant", at |-> <<h, 0>>, offset |-> o] :
                     h \in {0 - 1, 0, 23, 24}, o \in (0 - MaxOffset)..MaxOffset}]

ZoneFiles == {<<r>> : r \in ZoneRows} \cup {<<r, q>> : r \in ZoneRows, q \in ZoneRows}

WideFiles ==
    FilesOf(FlagRows) \cup FilesOf(HealthRows) \cup {<<r>> : r \in SchemaRows}
        \cup ZoneFiles

\* The store may exist, empty, from an earlier call of create_database.
WideInit ==
    /\ fileExists = TRUE
    /\ fileRows \in WideFiles
    /\ dbCreated \in BOOLEAN
    /\ runs = MaxRuns - 1
    /\ Quiet

\* The run ends: main returns `code` (or the interpreter exits with it),
\* having printed the exception `why` or a summary that states `told`.
Return(code, why, told) ==
    /\ pc' = "idle"
    /\ exit' = <<code>>
    /\ err' = why
    /\ reported' = told

\* main's summary prints total_rows; its error path prints the exception
\* alone.
Summary(code, rows) == IF code = 0 THEN <<rows>> ELSE <<>>

Continue(at) ==
    /\ pc' = at
    /\ UNCHANGED <<exit, err, reported>>

\* Mutant: main does not check the input path.
NeverChecksInput(exists) == FALSE

\* main's check of the input path.
InputNotFound(exists) == ~exists

\* Mutant: the generator reads on before its caller has handled the chunk.
ReadsAhead(who) == "next_chunk"

\* The yield of process_file hands the chunk to the body of the caller's for
\* loop; the generator is resumed when the body is through.  main's body
\* loads the chunk, csv_processor's own body counts it.
AfterYield(who) == IF who = "main" THEN "load" ELSE "next_chunk"

\* ------------------------------------------------------------------- main
\* main up to the chunk loop: argument parsing, the input check,
\* create_database.
MainStart ==
    /\ pc = "idle"
    /\ runs < MaxRuns
    /\ \E cs \in 1..MaxChunkSize, tm \in BOOLEAN, sk \in BOOLEAN :
          args' = [chunk_size |-> cs, test_mode |-> tm, skip_aggregates |-> sk]
    /\ runs' = runs + 1
    /\ caller' = "main"
    /\ base_rows' = Len(sensor_readings)
    /\ chunk_count' = 0
    /\ total_rows' = 0
    /\ chunks_read' = 0
    /\ chunk_df' = <<>>
    /\ IF InputNotFound(fileExists)
       THEN /\ Return(1, "InputNotFound", <<>>)
            /\ UNCHANGED dbCreated
       ELSE /\ pc' = "process_file"
            /\ exit' = <<>>
            /\ err' = ""
            /\ reported' = <<>>
            /\ dbCreated' = TRUE
    /\ UNCHANGED <<fileExists, fileRows, legacy_sum, summary, time_range,
                   sensor_readings, hourly_aggregates,
                   est_rows, processed_rows, validation>>

\* csv_processor.py run as a script without --stats-only: it iterates
\* process_file and writes nothing.
ProcessorStart ==
    /\ pc = "idle"
    /\ runs < MaxRuns
    /\ \E cs \in 1..MaxChunkSize :
          args' = [chunk_size |-> cs, test_mode |-> FALSE, skip_aggregates |-> TRUE]
    /\ runs' = runs + 1
    /\ caller' = "processor"
    /\ base_rows' = Len(sensor_readings)
    /\ chunk_count' = 0
    /\ total_rows' = 0
    /\ chunks_read' = 0
    /\ chunk_df' = <<>>
    /\ pc' = "process_file"
    /\ exit' = <<>>
    /\ err' = ""
    /\ reported' = <<>>
    /\ UNCHANGED <<fileExists, fileRows, legacy_sum, summary, time_range,
                   dbCreated, sensor_readings,
                   hourly_aggregates, est_rows, processed_rows, validation>>

\* process_file from its first line to the creation of the chunk iterator.
ProcessFileStart ==
    /\ pc = "process_file"
    /\ IF ~fileExists
       THEN /\ Return(1, "FileNotFoundError", <<>>)
            /\ UNCHANGED <<est_rows, processed_rows>>
       ELSE IF EstimateRaises(fileRows)
       THEN /\ Return(1, "ValueError", <<>>)
            /\ UNCHANGED <<est_rows, processed_rows>>
       ELSE /\ est_rows' = EstimateTotalRows(fileRows)
            /\ processed_rows' = 0
            /\ Continue("next_chunk")
    /\ UNCHANGED <<fileExists, fileRows, legacy_sum, summary, time_range,
                   dbCreated, sensor_readings,
                   hourly_aggregates, caller, args, chunk_count, total_rows,
                   chunks_read, chunk_df, validation, base_rows, runs>>

\* One turn of the generator's loop: read the next chunk, transform it and
\* yield it; or find the file exhausted.
NextChunk ==
    /\ pc = "next_chunk"
    /\ IF chunks_read >= NumChunks(fileRows, args.chunk_size)
       THEN /\ IF caller = "main"
               THEN Continue("aggregate")
               ELSE Return(0, "", <<>>)
            /\ UNCHANGED <<processed_rows, chunks_read, chunk_df, chunk_count>>
       ELSE LET raw == RawChunk(fileRows, args.chunk_size, chunks_read + 1)
                out == ProcessChunk(raw, legacy_sum)
            IN  IF out.raised
                THEN /\ Return(1, "TypeError", <<>>)
                     /\ UNCHANGED <<processed_rows, chunks_read, chunk_df, chunk_count>>
                ELSE /\ processed_rows' = processed_rows + Len(raw)
                     /\ chunks_read' = chunks_read + 1
                     /\ chunk_df' = out.rows
                     /\ Continue(AfterYield(caller))
                     /\ chunk_count' =
                           IF caller = "main" THEN chunk_count ELSE chunk_count + 1
    /\ UNCHANGED <<fileExists, fileRows, legacy_sum, summary, time_range,
                   dbCreated, sensor_readings,
                   hourly_aggregates, caller, args, total_rows, est_rows,
                   validation, base_rows, runs>>

\* The body of main's loop: load the yielded chunk, count it, test-mode break.
LoadChunk ==
    /\ pc = "load"
    /\ \E failAt \in 0..NumBatches(chunk_df) :
          LET out == LoadChunkToDb(chunk_df, sensor_readings, failAt)
          IN  /\ sensor_readings' = out.table
              /\ IF out.raised
                 THEN /\ Return(1, "WriteFailure", <<>>)
                      /\ UNCHANGED <<chunk_count, total_rows>>
                 ELSE /\ chunk_count' = chunk_count + 1
                      /\ total_rows' = total_rows + Len(chunk_df)
                      /\ Continue(AfterLoad(args.test_mode, chunk_count + 1))
    /\ UNCHANGED <<fileExists, fileRows, legacy_sum, summary, time_range,
                   dbCreated, hourly_aggregates, caller,
                   args, est_rows, processed_rows, chunks_read, chunk_df,
                   validation, base_rows, runs>>

\* main after the loop: the aggregation unless skipped, the summary, return 0.
Finish ==
    /\ pc = "aggregate"
    /\ IF args.skip_aggregates
       THEN /\ Return(0, "", Summary(0, total_rows))
            /\ UNCHANGED <<hourly_aggregates, time_range>>
       ELSE \E storageFails \in BOOLEAN :
              LET out == CalculateHourlyAggregates(sensor_readings, hourly_aggregates,
                                                   NaT, NaT, storageFails)
                  code == IF out.raised THEN 1 ELSE 0
              IN  /\ hourly_aggregates' = out.table
                  /\ time_range' = NoRange
                  /\ Return(code, out.error, Summary(code, total_rows))
    /\ UNCHANGED <<fileExists, fileRows, legacy_sum, summary,
                   dbCreated, sensor_readings, caller,
                   args, chunk_count, total_rows, est_rows, processed_rows,
                   chunks_read, chunk_df, validation, base_rows, runs>>

\* The time ranges a caller may pass: none, or from one hour to a later one.
TimeRanges ==
    {NoRange} \cup {<<<<h[1], 0>>, <<h[2], 0>>>> :
                        h \in {x \in (0..MaxHour) \X (0..MaxHour) : x[1] <= x[2]}}

\* calculate_hourly_aggregates called on its own against an existing store,
\* with or without a time range; exit records whether it returned (0) or
\* raised (1).
Reaggregate ==
    /\ pc = "idle"
    /\ runs < MaxRuns
    /\ dbCreated
    /\ runs' = runs + 1
    /\ caller' = "aggregator"
    /\ base_rows' = Len(sensor_readings)
    /\ \E range \in TimeRanges, storageFails \in BOOLEAN :
          LET out == CalculateHourlyAggregates(sensor_readings, hourly_aggregates,
                                               range[1], range[2], storageFails)
          IN  /\ hourly_aggregates' = out.table
              /\ time_range' = range
              /\ Return(IF out.raised THEN 1 ELSE 0, out.error, <<>>)
    /\ UNCHANGED <<fileExists, fileRows, legacy_sum, summary,
                   dbCreated, sensor_readings, args,
                   chunk_count, total_rows, est_rows, processed_rows,
                   chunks_read, chunk_df, validation>>

\* The windows get_time_range_params may compute.
Windows == TimeRanges \ {NoRange}

\* A request to /api/system/summary against an existing store; exit records
\* whether the response was 200 (0) or 500 (1).
Summarize ==
    /\ pc = "idle"
    /\ runs < MaxRuns
    /\ dbCreated
    /\ runs' = runs + 1
    /\ caller' = "summary"
    /\ base_rows' = Len(sensor_readings)
    /\ \E w \in Windows :
          LET out == SystemSummary(sensor_readings, w[1], w[2])
          IN  /\ summary' = out
              /\ time_range' = w
              /\ IF out.status = 200
                 THEN Return(0, "", <<>>)
                 ELSE Return(1, "TypeError", <<>>)
    /\ UNCHANGED <<fileExists, fileRows, legacy_sum, dbCreated, sensor_readings,
                   hourly_aggregates, args, chunk_count, total_rows, est_rows,
                   processed_rows, chunks_read, chunk_df, validation>>

\* Mutant: the validator stores the first chunk it reads.
ValidateAndStore ==
    /\ pc = "idle"
    /\ runs < MaxRuns
    /\ runs' = runs + 1
    /\ caller' = "validator"
    /\ base_rows' = Len(sensor_readings)
    /\ \E cs \in 1..MaxChunkSize, sample \in 0..MaxSample :
          LET out == ProcessChunk(RawChunk(fileRows, cs, 1), legacy_sum).rows
          IN  /\ validation' = ValidateCsv(fileExists, fileRows, cs, sample, FALSE)
              /\ sensor_readings' =
                    sensor_readings \o [i \in 1..Len(out) |-> MapColumns(out[i])]
    /\ Return(0, "", <<>>)
    /\ UNCHANGED <<fileExists, fileRows, legacy_sum, summary,
                   time_range,
                   dbCreated, hourly_aggregates, args, chunk_count, total_rows,
                   est_rows, processed_rows, chunks_read, chunk_df>>

\* validate_csv called on the input file by a processor of some chunk size;
\* exit records that it returned (it never raises).
Validate ==
    /\ pc = "idle"
    /\ runs < MaxRuns
    /\ runs' = runs + 1
    /\ caller' = "validator"
    /\ base_rows' = Len(sensor_readings)
    /\ \E cs \in 1..MaxChunkSize, sample \in 0..MaxSample, readFails \in BOOLEAN :
          validation' = ValidateCsv(fileExists, fileRows, cs, sample, readFails)
    /\ Return(0, "", <<>>)
    /\ UNCHANGED <<fileExists, fileRows, legacy_sum, summary, time_range,
                   dbCreated, sensor_readings,
                   hourly_aggregates, args, chunk_count, total_rows, est_rows,
                   processed_rows, chunks_read, chunk_df>>

Next ==
    \/ MainStart
    \/ ProcessorStart
    \/ Validate
    \/ ProcessFileStart
    \/ NextChunk
    \/ LoadChunk
    \/ Finish
    \/ Reaggregate
    \/ Summarize

Spec == Init /\ [][Next]_vars

WideSpec == WideInit /\ [][Next]_vars

\* ================================================================== claims

\* The run that ended last was an aggregation that succeeded: main with
\* aggregation, or calculate_hourly_aggregates on its own.
AggregatedLast ==
    /\ pc = "idle"
    /\ exit = <<0>>
    /\ caller = "aggregator" \/ (caller = "main" /\ ~args.skip_aggregates)

\* C1: calculate_hourly_aggregates run again right after a successful
\* aggregation, over the unchanged sensor_readings, completes without error
\* (the storage layer not failing) and leaves hourly_aggregates with the
\* same rows.
C1_RerunIsIdempotent ==
    [][(AggregatedLast /\ caller' = "aggregator" /\ runs' = runs + 1
            /\ err' # "OperationalError")
        => (exit' = <<0>> /\ hourly_aggregates' = hourly_aggregates)]_vars

\* C2: in every reachable state hourly_aggregates holds at most one row per
\* hour-truncated timestamp.
C2_OneRowPerHour ==
    \A i, j \in 1..Len(hourly_aggregates) :
        HourTruncate(hourly_aggregates[i].timestamp)
            = HourTruncate(hourly_aggregates[j].timestamp) => i = j

\* C2 witness: an hour that summarises two readings is in the store and a
\* second aggregation of it was rejected.
C2_Witness ==
    /\ err = "IntegrityError"
    /\ \E i \in 1..Len(hourly_aggregates) : hourly_aggregates[i].reading_count >= 2

\* C3: no row of sensor_readings has a null timestamp, and no chunk that
\* process_chunk yields to load_chunk_to_db has a row with a null timestamp.
C3_TimestampNeverNull ==
    /\ \A i \in 1..Len(sensor_readings) : sensor_readings[i].timestamp # NaT
    /\ \A i \in 1..Len(chunk_df) : chunk_df[i].timestamp # NaT

\* C3 witness: a full run over a file with an unparsable or missing
\* timestamp has ended well and stored the other row.
C3_Witness ==
    /\ caller = "main"
    /\ exit = <<0>>
    /\ ~args.test_mode
    /\ Len(sensor_readings) >= 1
    /\ \E i \in 1..Len(fileRows) : fileRows[i].timestamp.kind # "instant"

\* Rows of `rows` whose timestamp cell is empty or does not parse.
Unparsable(rows) ==
    Cardinality({i \in 1..Len(rows) : rows[i].timestamp.kind # "instant"})

\* validate_csv returned a result for which the whole file was one sampled
\* chunk.
OneSampledChunk ==
    /\ validation.returned = "dict"
    /\ validation.sample_chunks >= 1
    /\ validation.chunk_size >= Len(fileRows)

\* main has returned 0 from a run without --test-mode.
FullRunDone ==
    /\ caller = "main"
    /\ pc = "idle"
    /\ exit = <<0>>
    /\ ~args.test_mode

\* C4: when all rows of the file lie in one sampled chunk, validate_csv's
\* timestamp_issues is the number of rows with an unparsable timestamp, and a
\* full ingestion run commits exactly (raw rows - timestamp_issues) readings.
C4_ValidatorAgreesWithIngestion ==
    OneSampledChunk =>
        /\ validation.timestamp_issues = Unparsable(fileRows)
        /\ FullRunDone =>
              /\ total_rows = Len(fileRows) - validation.timestamp_issues
              /\ Len(sensor_readings) - base_rows
                    = Len(fileRows) - validation.timestamp_issues

\* C4 witness: two rows, one of them unparsable: the validator has reported
\* one issue and the full run has committed one reading.
C4_Witness ==
    /\ OneSampledChunk
    /\ FullRunDone
    /\ Len(fileRows) = 2
    /\ validation.timestamp_issues = 1
    /\ total_rows = 1
    /\ Len(sensor_readings) = 1

C6_WriteFailureReportsCommitted ==
    (caller = "main" /\ err = "WriteFailure") =>
        /\ Len(sensor_readings) = base_rows + total_rows
        /\ reported = <<Len(sensor_readings) - base_rows>>

\* A step in which calculate_hourly_aggregates raises.
AggregationFails ==
    /\ pc = "aggregate" \/ (pc = "idle" /\ caller' = "aggregator" /\ runs' = runs + 1)
    /\ err' \in {"IntegrityError", "OperationalError"}

\* C7: a failing calculate_hourly_aggregates leaves every row that was in
\* hourly_aggregates in place and unchanged, adds no second row for any of
\* their hours, and the caller sees the failure (exit code 1).
C7_FailedAggregationKeepsRows ==
    [][AggregationFails =>
        /\ exit' = <<1>>
        /\ Len(hourly_aggregates') >= Len(hourly_aggregates)
        /\ SubSeq(hourly_aggregates', 1, Len(hourly_aggregates)) = hourly_aggregates
        /\ \A j \in (Len(hourly_aggregates) + 1)..Len(hourly_aggregates') :
              hourly_aggregates'[j].timestamp \notin Timestamps(hourly_aggregates)]_vars

\* C7 witness: main has returned 1 on an aggregation rejected by the store,
\* with an earlier run's hour still there.
C7_Witness ==
    /\ caller = "main"
    /\ exit = <<1>>
    /\ err = "IntegrityError"
    /\ Len(hourly_aggregates) >= 1

\* Every chunk of the file has been read, transformed and loaded.
LoopFinished ==
    /\ chunks_read = NumChunks(fileRows, args.chunk_size)
    /\ chunk_count = chunks_read

\* The loop was left by the test-mode break after the first chunk.
TestModeStop == args.test_mode /\ chunk_count = 1

\* C8: main reaches the aggregation only from a loop that has finished (or
\* that --test-mode ended after its first chunk) and with no exception
\* raised, and within a run of main hourly_aggregates changes at no other
\* point.
C8_AggregationAfterLoop ==
    [][/\ pc' = "aggregate" =>
            (caller' = "main" /\ err' = "" /\ (LoopFinished' \/ TestModeStop'))
       /\ hourly_aggregates' # hourly_aggregates =>
            (pc = "aggregate" \/ (pc = "idle" /\ caller' = "aggregator"))]_vars

\* C8 witness: a run without --test-mode stands before the aggregation with
\* both chunks of the file loaded.
C8_Witness ==
    /\ pc = "aggregate"
    /\ ~args.test_mode
    /\ chunk_count = 2
    /\ total_rows = 2

RECURSIVE LoadedRows(_, _, _)
\* What loading chunks 1..k of the file appends to sensor_readings.
LoadedRows(rows, cs, k) ==
    IF k = 0 THEN <<>>
    ELSE LET out == ProcessChunk(RawChunk(rows, cs, k), legacy_sum).rows
         IN  LoadedRows(rows, cs, k - 1) \o [i \in 1..Len(out) |-> MapColumns(out[i])]

\* A step in which an exception leaves main's chunk loop.
LoopAborts ==
    /\ caller = "main"
    /\ pc \in {"next_chunk", "load"}
    /\ pc' = "idle"

\* C9: when chunk k's transform or load raises, sensor_readings keeps what
\* it held, which is the earlier rows followed by the readings of chunks
\* 1..k-1 as loaded; main returns 1 and hourly_aggregates is not touched.
C9_AbortKeepsLoadedChunks ==
    [][LoopAborts =>
        /\ exit' = <<1>>
        /\ hourly_aggregates' = hourly_aggregates
        /\ sensor_readings' = sensor_readings
        /\ SubSeq(sensor_readings', base_rows + 1, Len(sensor_readings'))
              = LoadedRows(fileRows, args.chunk_size, chunk_count)]_vars

\* C9 witness: the transform of chunk 2 raised after chunk 1 was loaded.
C9_Witness ==
    /\ caller = "main"
    /\ exit = <<1>>
    /\ err = "TypeError"
    /\ chunk_count = 1
    /\ Len(sensor_readings) = base_rows + 1

\* C10: with the input file missing nothing is created, estimated, read or
\* written, main returns 1 and process_file raises FileNotFoundError; and
\* main returns 0 only from a run whose loop finished without exception and
\* whose aggregation, unless skipped, covered every stored hour.
C10_MissingInputIsFatal ==
    /\ ~fileExists =>
          /\ ~dbCreated
          /\ sensor_readings = <<>> /\ hourly_aggregates = <<>>
          /\ est_rows = 0 /\ chunks_read = 0 /\ chunk_df = <<>>
          /\ (pc = "idle" /\ caller = "main") =>
                (exit = <<1>> /\ err = "InputNotFound")
          /\ (pc = "idle" /\ caller = "processor") =>
                (exit = <<1>> /\ err = "FileNotFoundError")
    /\ (caller = "main" /\ exit = <<0>>) =>
          /\ fileExists /\ err = ""
          /\ LoopFinished \/ TestModeStop
          /\ Len(sensor_readings) = base_rows + total_rows
          /\ ~args.skip_aggregates =>
                GroupKeys(sensor_readings) \subseteq Timestamps(hourly_aggregates)

\* C10 witness: main has returned 1 for a missing input file.
C10_Witness ==
    /\ ~fileExists
    /\ caller = "main"
    /\ exit = <<1>>
    /\ err = "InputNotFound"

\* The exceptions of the storage layer and of a missing input file.
FatalByContract ==
    {"InputNotFound", "FileNotFoundError", "WriteFailure", "OperationalError",
     "IntegrityError"}

\* C11: no run ends in an exception of the transform path: whatever the
\* content of the file (unparsable timestamps, flag values other than t/f,
\* no data rows), a run that ends fatally ends for a missing input file or a
\* failure of the storage layer.
C11_TransformNeverRaises ==
    (caller \in {"main", "processor"} /\ exit = <<1>>) => err \in FatalByContract

\* The raw rows of the chunk the generator yielded last.
LastRaw == RawChunk(fileRows, args.chunk_size, chunks_read)

\* C12: in a chunk that process_chunk has yielded, every flag column whose
\* raw values are all among t, T, f, F and the empty cell is boolean (t/T
\* true, f/F false, empty null), and every other flag column is as it was
\* read.
C12_BooleanCoercion ==
    (pc = "load" /\ Len(chunk_df) = Len(LastRaw)) =>
        \A c \in FlagColumns \cap Columns(LastRaw) :
            \A i \in 1..Len(LastRaw) :
                chunk_df[i][c] =
                    IF ColumnValues(LastRaw, c) \subseteq BoolLetters \cup {""}
                    THEN BoolMap(LastRaw[i][c])
                    ELSE LastRaw[i][c]

\* The system_health_score of a transformed row, null when the column was
\* not computed.
ScoreOf(row) ==
    IF "system_health_score" \in DOMAIN row THEN row.system_health_score ELSE NaN

\* The row has a motor-amps value.
HasAmps(row) ==
    /\ "bop_plc_vl_comp_mainmotor_amps" \in DOMAIN row
    /\ row["bop_plc_vl_comp_mainmotor_amps"] # NaN

\* C13: the system_health_score of every yielded row is the mean of the
\* fault factor and the current factor when the row has fault flags and a
\* motor-amps value, the one factor it has when it has only one of them, and
\* null when it has neither (each clipped to 0..100).
C13_HealthScoreUsesAvailable ==
    pc = "load" =>
        \A i \in 1..Len(chunk_df) :
            LET row == chunk_df[i]
                f == FaultScore(row, FaultCols(row))
                c == CurrentScore(row)
            IN  ScoreOf(row) =
                    IF FaultCols(row) # {} /\ HasAmps(row) THEN Clip((f + c) \div 2)
                    ELSE IF FaultCols(row) # {} THEN Clip(f)
                    ELSE IF HasAmps(row) THEN Clip(c)
                    ELSE NaN

\* C14: every system_health_score that is not null, in a yielded chunk or in
\* sensor_readings, lies in 0..100.
C14_HealthScoreInRange ==
    /\ \A i \in 1..Len(chunk_df) :
          ScoreOf(chunk_df[i]) # NaN =>
              (0 <= ScoreOf(chunk_df[i]) /\ ScoreOf(chunk_df[i]) <= 100)
    /\ \A i \in 1..Len(sensor_readings) :
          sensor_readings[i].system_health_score # NaN =>
              /\ 0 <= sensor_readings[i].system_health_score
              /\ sensor_readings[i].system_health_score <= 100

\* C14 witness: a row with MaxFaults true fault flags and MaxAmps motor amps
\* is stored with score 0, and a row with negative amps with score 100.
C14_Witness ==
    /\ Len(fileRows) = 2 /\ Len(sensor_readings) = 2
    /\ DOMAIN fileRows[1] =
          {"timestamp", "other_fault_flags", "bop_plc_vl_comp_mainmotor_amps"}
    /\ fileRows[1].other_fault_flags = MaxFaults
    /\ fileRows[1].bop_plc_vl_comp_mainmotor_amps = MaxAmps
    /\ fileRows[2].bop_plc_vl_comp_mainmotor_amps = 0 - MaxAmps
    /\ sensor_readings[1].system_health_score = 0
    /\ sensor_readings[2].system_health_score = 100

\* The columns of the input file.
FileColumns == Columns(fileRows)

\* The derived metrics for which the file lacks an input column.
Uncomputable == {m \in DOMAIN DerivedInputs : ~(DerivedInputs[m] \subseteq FileColumns)}

\* The columns of sensor_readings whose raw column the file lacks.
Unmapped ==
    {SENSOR_COLUMN_MAPPING[c] : c \in DOMAIN SENSOR_COLUMN_MAPPING \ FileColumns}

\* What a reading shows in a column that holds no value.
Empty(c) ==
    IF c \in {"compressor_efficiency", "pressure_ratio"} THEN NaNRatio
    ELSE IF c \in {"comp_running", "comp_fault", "blower_fault"} THEN ""
    ELSE NaN

\* C15: a yielded row carries gas_quality_score, compressor_efficiency,
\* temp_differential and pressure_ratio exactly when both inputs of the
\* metric are columns of the file; an absent column never makes the transform
\* raise; a run that ends well has loaded every row; and every stored reading
\* has NULL in the metrics that could not be computed and in the columns the
\* file lacks.
C15_AbsentColumnIsNotFatal ==
    /\ \A i \in 1..Len(chunk_df) :
          DOMAIN chunk_df[i] \cap DOMAIN DerivedInputs
              = DOMAIN DerivedInputs \ Uncomputable
    /\ err = "TypeError" =>
          \E i \in 1..Len(fileRows) :
              \E c \in DOMAIN fileRows[i] \cap FaultColumns \cap FlagColumns :
                  fileRows[i][c] \notin BoolLetters
    /\ err # "ValueError"
    /\ FullRunDone => Len(sensor_readings) = Len(fileRows)
    /\ \A j \in 1..Len(sensor_readings) :
          \A c \in Uncomputable \cup Unmapped : sensor_readings[j][c] = Empty(c)

\* C15 witness: a file with a methane column and no carbon-dioxide column
\* has been ingested: the reading has its methane value, no gas quality
\* score and no carbon-dioxide value, and its temperature differential.
C15_Witness ==
    /\ FullRunDone
    /\ Len(sensor_readings) = 1
    /\ "bop_plc_abb_gc_outletstream_co2" \notin FileColumns
    /\ sensor_readings[1].ch4_percent = 70
    /\ sensor_readings[1].co2_percent = NaN
    /\ sensor_readings[1].gas_quality_score = NaN
    /\ sensor_readings[1].temp_differential = 50

\* The stored readings of the hour that begins at hr.
HourOf(hr) ==
    {i \in 1..Len(sensor_readings) : HourTruncate(sensor_readings[i].timestamp) = hr}

\* The readings among idx that are stored as running.
Running(idx) == {i \in idx : sensor_readings[i].comp_running = "True"}

\* C16: every row of hourly_aggregates has an uptime_percentage whose divisor
\* is not zero and whose value is 100 * (readings of the hour with
\* comp_running true) / (readings of the hour); and the uptime the summary
\* endpoint answers has a divisor that is not zero and is 0 over zero rows.
C16_UptimePercentage ==
    /\ \A k \in 1..Len(hourly_aggregates) :
          LET a == hourly_aggregates[k]
              idx == HourOf(a.timestamp)
          IN  /\ a.uptime_percentage[2] # 0
              /\ a.uptime_percentage[1] * Cardinality(idx)
                    = 100 * Cardinality(Running(idx)) * a.uptime_percentage[2]
    /\ (caller = "summary" /\ summary.status = 200) =>
          /\ summary.uptime_percentage[2] # 0
          /\ summary.data_points = 0 => summary.uptime_percentage[1] = 0

\* C16 witness: an hour with two readings, one running and one without a
\* run status, has uptime 100 / 2.
C16_Witness ==
    \E k \in 1..Len(hourly_aggregates) :
        /\ hourly_aggregates[k].reading_count = 2
        /\ hourly_aggregates[k].uptime_percentage = <<100, 2>>
        /\ \E i \in HourOf(hourly_aggregates[k].timestamp) :
              sensor_readings[i].comp_running = ""

\* The readings among idx with the given fault flag stored as true.
Faulty(idx, flag) == {i \in idx : sensor_readings[i][flag] = "True"}

\* C17: the fault_count of every row of hourly_aggregates is the number of
\* readings of its hour whose comp_fault or blower_fault is true; a reading
\* with both counts once, a reading with neither (false or null) not at all.
C17_FaultCount ==
    \A k \in 1..Len(hourly_aggregates) :
        LET a == hourly_aggregates[k]
            idx == HourOf(a.timestamp)
        IN  a.fault_count
                = Cardinality(Faulty(idx, "comp_fault") \cup Faulty(idx, "blower_fault"))

\* C17 witness: an hour with two readings, one with both flags true and one
\* with a null flag and a false one, has fault_count 1.
C17_Witness ==
    \E k \in 1..Len(hourly_aggregates) :
        LET idx == HourOf(hourly_aggregates[k].timestamp)
        IN  /\ hourly_aggregates[k].fault_count = 1
            /\ Cardinality(idx) = 2
            /\ Faulty(idx, "comp_fault") \cap Faulty(idx, "blower_fault") # {}
            /\ \E i \in idx : /\ sensor_readings[i].comp_fault = ""
                               /\ sensor_readings[i].blower_fault = "False"

\* A step in which calculate_hourly_aggregates, called with a time range,
\* returns.
RangedAggregation ==
    /\ pc = "idle" /\ caller' = "aggregator" /\ runs' = runs + 1
    /\ time_range' # NoRange
    /\ exit' = <<0>>

\* C18: calculate_hourly_aggregates called with a time range writes rows
\* only for hours within the range.
C18_AggregatesOnlyRange ==
    [][RangedAggregation =>
        \A j \in (Len(hourly_aggregates) + 1)..Len(hourly_aggregates') :
            Between(hourly_aggregates'[j].timestamp,
                    time_range'[1], time_range'[2])]_vars

\* What a full run over the file appends to sensor_readings.
CommittedReadings ==
    LoadedRows(fileRows, args.chunk_size, NumChunks(fileRows, args.chunk_size))

\* A step in which load_chunk_to_db returns.
LoadSucceeds == pc = "load" /\ pc' # "idle"

\* C19: no step removes or changes a stored reading; a load that succeeds
\* appends exactly one reading per row of the transformed chunk, in order;
\* and what a full run has appended is the file's committed readings,
\* whatever the store held before.
C19_LoadAppendsExactly ==
    /\ [][/\ Len(sensor_readings') >= Len(sensor_readings)
          /\ SubSeq(sensor_readings', 1, Len(sensor_readings)) = sensor_readings
          /\ LoadSucceeds =>
                /\ Len(sensor_readings') = Len(sensor_readings) + Len(chunk_df)
                /\ \A i \in 1..Len(chunk_df) :
                      sensor_readings'[Len(sensor_readings) + i]
                          = MapColumns(chunk_df[i])]_vars
    /\ [](FullRunDone =>
            SubSeq(sensor_readings, base_rows + 1, Len(sensor_readings))
                = CommittedReadings)

\* C19 witness: the second full run over a file of two good rows has ended:
\* the store holds the two readings twice.
C19_Witness ==
    /\ FullRunDone
    /\ base_rows = 2
    /\ Len(CommittedReadings) = 2
    /\ sensor_readings = CommittedReadings \o CommittedReadings

\* A step that is a call of validate_csv.
ValidatorRuns == pc = "idle" /\ caller' = "validator" /\ runs' = runs + 1

\* main has returned, with or without an error, for an input file that
\* exists.
IngestionEnded == caller = "main" /\ pc = "idle" /\ fileExists

\* C20: a call of validate_csv, whatever it returns, changes neither table,
\* nor the file, nor whether the store exists; and what a run of main has
\* appended when it ends is what loading the chunks it got through appends,
\* whether validate_csv ran before it or not.
C20_ValidatorIsReadOnly ==
    /\ [][ValidatorRuns =>
            /\ sensor_readings' = sensor_readings
            /\ hourly_aggregates' = hourly_aggregates
            /\ fileRows' = fileRows /\ fileExists' = fileExists
            /\ dbCreated' = dbCreated]_vars
    /\ [](IngestionEnded =>
            /\ Len(sensor_readings) = base_rows + total_rows
            /\ SubSeq(sensor_readings, base_rows + 1, Len(sensor_readings))
                  = LoadedRows(fileRows, args.chunk_size, chunk_count))

\* C20 witness: validate_csv reported a timestamp problem and the full run
\* of main after it has committed the file's good row.
C20_Witness ==
    /\ FullRunDone
    /\ runs = 2
    /\ validation.returned = "dict"
    /\ validation.timestamp_issues = 1
    /\ Len(fileRows) = 2
    /\ base_rows = 0
    /\ Len(sensor_readings) = 1

\* The exceptions a chunk's transform or load ends a run with.
ChunkFailures == {"TypeError", "WriteFailure"}

\* C21: estimate_total_rows never ends a run over an existing file: unless
\* the transform or the load of a chunk raises, the run gets past the
\* estimate and (without --test-mode) reads, transforms and yields every
\* chunk of the file.
C21_EstimateIsAdvisory ==
    (caller \in {"main", "processor"} /\ pc = "idle" /\ fileExists
        /\ err \notin ChunkFailures)
    => /\ err # "ValueError"
       /\ ~args.test_mode => chunks_read = NumChunks(fileRows, args.chunk_size)

\* What the running or last run of main has appended to sensor_readings.
Appended == SubSeq(sensor_readings, base_rows + 1, Len(sensor_readings))

UtcHour(cell) == cell.at[1] - cell.offset

\* Two raw timestamp cells denote the same instant.
SameInstant(a, b) == UtcHour(a) = UtcHour(b) /\ a.at[2] = b.at[2]

\* The days from 2023-12-01 to 2024-01-31, counted from 2024-01-01, with
\* their day of the month and day of the week (Monday 0).
CalendarDay(d) == IF d < 0 THEN 32 + d ELSE d + 1

CalendarWeekday(d) == CHOOSE w \in 0..6 : \E k \in -5..5 : d = 7 * k + w

\* C23: in a yielded chunk from which no row was dropped, every row's
\* timestamp is the UTC wall-clock time of the instant its raw cell denotes,
\* so two raw cells that denote one instant in different zones give the same
\* timestamp; and hour, day_of_week and day_of_month are the UTC hour of the
\* day (0..23), weekday (0..6, Monday 0) and day of the month (1..31) of it.
C23_TimestampNormalisation ==
    (chunk_df # <<>> /\ Len(chunk_df) = Len(LastRaw)) =>
        /\ \A i, j \in 1..Len(chunk_df) :
              SameInstant(LastRaw[i].timestamp, LastRaw[j].timestamp)
                  => chunk_df[i].timestamp = chunk_df[j].timestamp
        /\ \A i \in 1..Len(chunk_df) :
              LET raw == LastRaw[i].timestamp
                  row == chunk_df[i]
                  day == (UtcHour(raw) - row.hour) \div 24
              IN  /\ row.timestamp = <<UtcHour(raw), raw.at[2]>>
                  /\ row.hour \in 0..23
                  /\ UtcHour(raw) = 24 * day + row.hour
                  /\ row.day_of_week \in 0..6
                  /\ row.day_of_week = CalendarWeekday(day)
                  /\ row.day_of_month \in 1..31
                  /\ row.day_of_month = CalendarDay(day)

\* C23 witness: a chunk of 00:00+01:00 on 1 January and 23:00 UTC on 31
\* December, one instant: both rows come out as 23:00 on Sunday the 31st.
C23_Witness ==
    /\ Len(chunk_df) = 2 /\ Len(LastRaw) = 2
    /\ LastRaw[1].timestamp = [kind |-> "instant", at |-> <<0, 0>>, offset |-> 1]
    /\ LastRaw[2].timestamp = [kind |-> "instant", at |-> <<0 - 1, 0>>, offset |-> 0]
    /\ chunk_df[1].timestamp = chunk_df[2].timestamp
    /\ chunk_df[1].hour = 23
    /\ chunk_df[1].day_of_week = 6
    /\ chunk_df[1].day_of_month = 31

\* The row has a value in the column.
HasValue(row, col) == col \in DOMAIN row /\ row[col] # NaN

\* C24: a yielded row whose file has the ch4 and co2 columns has the
\* gas_quality_score ch4 * 0.7 + (100 - co2) * 0.3 of its own two values when
\* both are there, and a null score when either is null; and the score is
\* stored as computed.
C24_GasQualityScore ==
    /\ \A i \in 1..Len(chunk_df) :
          LET row == chunk_df[i]
              ch4 == "bop_plc_abb_gc_outletstream_ch4"
              co2 == "bop_plc_abb_gc_outletstream_co2"
          IN  ({ch4, co2} \subseteq DOMAIN row) =>
                  IF HasValue(row, ch4) /\ HasValue(row, co2)
                  THEN /\ row.gas_quality_score # NaN
                       /\ 10 * row.gas_quality_score
                             = 7 * row[ch4] + 3 * (100 - row[co2])
                  ELSE row.gas_quality_score = NaN
    /\ \A j \in 1..Len(sensor_readings) :
          LET r == sensor_readings[j]
          IN  IF r.ch4_percent # NaN /\ r.co2_percent # NaN
              THEN 10 * r.gas_quality_score
                      = 7 * r.ch4_percent + 3 * (100 - r.co2_percent)
              ELSE r.gas_quality_score = NaN

\* C24 witness: a reading with ch4 70 and co2 20 is stored with score 73.
C24_Witness ==
    \E j \in 1..Len(sensor_readings) :
        /\ sensor_readings[j].ch4_percent = 70
        /\ sensor_readings[j].co2_percent = 20
        /\ sensor_readings[j].gas_quality_score = 73

C26_OneChunkInFlight ==
    /\ [][(caller = "main" /\ chunks_read' = chunks_read + 1)
            => (pc = "next_chunk" /\ chunk_count = chunks_read)]_vars
    /\ [](caller = "main" =>
            /\ chunks_read - chunk_count \in {0, 1}
            /\ chunks_read = chunk_count + 1 =>
                  (pc = "load" \/ (pc = "idle" /\ err = "WriteFailure"))
            /\ pc = "next_chunk" => chunks_read = chunk_count
            /\ Appended = LoadedRows(fileRows, args.chunk_size, chunk_count))

\* C26 witness: the second chunk of the file is being loaded, the first is
\* stored.
C26_Witness ==
    /\ caller = "main"
    /\ pc = "load"
    /\ chunks_read = 2
    /\ chunk_count = 1
    /\ Len(Appended) = 1

\* idx is the list of s indices int(i * tc / s), i = 0..s-1: it begins with
\* 0, is strictly increasing and stays below tc.
EvenlySpaced(idx, tc, s) ==
    /\ Len(idx) = s
    /\ idx[1] = 0
    /\ \A i \in 1..s :
          /\ s * idx[i] <= (i - 1) * tc
          /\ (i - 1) * tc < s * (idx[i] + 1)
          /\ idx[i] \in 0..(tc - 1)
    /\ \A i \in 1..(s - 1) : idx[i] < idx[i + 1]

\* C27: for every estimated chunk count and every sample_chunks >= 1 the
\* indices chosen for the clamped sample count are int(i * total_chunks /
\* sample_chunks), distinct, increasing from 0 and below the chunk count; and
\* a call of validate_csv that returns a result has clamped sample_chunks to
\* the estimated chunk count, has inspected exactly the chunks of the file at
\* those indices, counts their rows in total_rows_sampled, and has taken no
\* chunk from the file behind the last chosen index.
C27_ValidatorChunkSelection ==
    /\ \A tc \in 1..MaxChunks, sample \in 1..MaxChunks :
          EvenlySpaced(ChunkIndices(tc, Min(sample, tc)), tc, Min(sample, tc))
    /\ (validation.returned = "dict" /\ validation.sample_chunks >= 1) =>
          LET v == validation
              idx == v.chunk_indices
              n == NumChunks(fileRows, v.chunk_size)
          IN  /\ v.total_chunks = Len(fileRows) \div v.chunk_size + 1
              /\ Len(idx) = Min(v.sample_chunks, v.total_chunks)
              /\ EvenlySpaced(idx, v.total_chunks, Len(idx))
              /\ v.inspected = {k \in Range(idx) : k < n}
              /\ Cardinality(v.inspected) <= v.sample_chunks
              /\ v.total_rows_sampled =
                    SumOver([k \in v.inspected |->
                                Len(RawChunk(fileRows, v.chunk_size, k + 1))],
                            v.inspected)
              /\ v.iterated = Min(n, idx[Len(idx)] + 1)

\* C27 witness: one chunk sampled from a file of two chunks: chunk 0 is
\* inspected, one row is counted and the second chunk is not read.
C27_Witness ==
    /\ validation.returned = "dict"
    /\ validation.sample_chunks = 1
    /\ validation.chunk_indices = <<0>>
    /\ NumChunks(fileRows, validation.chunk_size) = 2
    /\ validation.total_rows_sampled = 1
    /\ validation.iterated = 1

\* A step in which calculate_hourly_aggregates returns: from main, or called
\* on its own.
AggregationSucceeds ==
    /\ \/ pc = "aggregate" /\ ~args.skip_aggregates
       \/ pc = "idle" /\ caller' = "aggregator" /\ runs' = runs + 1
    /\ exit' = <<0>>

\* The stored readings that lie in the calendar hour h.
ReadingsIn(h) == {i \in 1..Len(sensor_readings) : sensor_readings[i].timestamp[1] = h}

\* The rows of hourly_aggregates partition the stored readings by hour.
HoursPartitionReadings ==
    /\ \A i \in 1..Len(sensor_readings) :
          Cardinality({k \in 1..Len(hourly_aggregates) :
                          hourly_aggregates[k].timestamp
                              = <<sensor_readings[i].timestamp[1], 0>>}) = 1
    /\ \A k \in 1..Len(hourly_aggregates) :
          LET a == hourly_aggregates[k]
          IN  /\ a.timestamp[2] = 0
              /\ ReadingsIn(a.timestamp[1]) # {}
              /\ a.reading_count = Cardinality(ReadingsIn(a.timestamp[1]))
    /\ SumOver([k \in 1..Len(hourly_aggregates) |-> hourly_aggregates[k].reading_count],
               1..Len(hourly_aggregates))
          = Len(sensor_readings)

\* C28: when calculate_hourly_aggregates returns from a run that found
\* hourly_aggregates empty, every stored reading is counted in exactly one
\* row, the row of its hour; every row stands for an hour that has readings
\* and counts them all; and the reading_counts add up to the number of
\* stored readings.
C28_HoursPartitionReadings ==
    [][(hourly_aggregates = <<>> /\ AggregationSucceeds)
          => HoursPartitionReadings']_vars

\* C28 witness: two readings at different minutes of one hour and none in
\* the other hour, aggregated into one row that counts both.
C28_Witness ==
    /\ AggregatedLast
    /\ Len(sensor_readings) = 2
    /\ sensor_readings[1].timestamp[1] = sensor_readings[2].timestamp[1]
    /\ sensor_readings[1].timestamp[2] # sensor_readings[2].timestamp[2]
    /\ Len(hourly_aggregates) = 1
    /\ hourly_aggregates[1].reading_count = 2

\* C29: every row of hourly_aggregates has reading_count >= 1, fault_count
\* and null_count between 0 and reading_count, and an uptime_percentage
\* between 0 and 100, whatever the stored readings hold in comp_running,
\* comp_fault, blower_fault and ch4_percent, NULL included.
C29_AggregateRowBounds ==
    \A k \in 1..Len(hourly_aggregates) :
        LET a == hourly_aggregates[k]
        IN  /\ a.reading_count >= 1
            /\ 0 <= a.fault_count /\ a.fault_count <= a.reading_count
            /\ 0 <= a.null_count /\ a.null_count <= a.reading_count
            /\ a.uptime_percentage[2] > 0
            /\ 0 <= a.uptime_percentage[1]
            /\ a.uptime_percentage[1] <= 100 * a.uptime_percentage[2]

\* C29 witness: an hour of two readings without methane, one of them with a
\* fault and one without a run status and with a null fault flag.
C29_Witness ==
    \E k \in 1..Len(hourly_aggregates) :
        /\ hourly_aggregates[k].reading_count = 2
        /\ hourly_aggregates[k].null_count = 2
        /\ hourly_aggregates[k].fault_count = 1
        /\ \E i \in HourOf(hourly_aggregates[k].timestamp) :
              /\ sensor_readings[i].comp_running = ""
              /\ sensor_readings[i].blower_fault = ""

\* validate_csv was called and has returned.
Validated == validation.returned # "never"

\* C30, as claimed: a call of validate_csv returns to its caller; it returns
\* None for a missing file, a header-only file and sample_chunks = 0; and a
\* result it returns has warnings exactly when timestamp_issues > 0.
C30_ValidatorReturnsNone ==
    /\ caller = "validator" => (pc = "idle" /\ exit = <<0>> /\ err = "")
    /\ Validated =>
          /\ (~fileExists \/ fileRows = <<>> \/ validation.sample_chunks = 0)
                => validation.returned = "None"
          /\ validation.returned = "dict" =>
                (validation.warnings # <<>> <=> validation.timestamp_issues > 0)

\* C30, as the code has it: a call of validate_csv returns to its caller; it
\* returns None exactly when an exception was caught inside, which a missing
\* file, a header-only file and a failing read bring about; otherwise it
\* returns a result, whose warnings list is non-empty exactly when
\* timestamp_issues > 0; sample_chunks = 0 is no failure: the whole file is
\* read, nothing is inspected and the result reports no rows and no issues.
C30_ValidatorNeverRaises ==
    /\ caller = "validator" => (pc = "idle" /\ exit = <<0>> /\ err = "")
    /\ Validated =>
          /\ validation.returned \in {"None", "dict"}
          /\ validation.returned = "None" <=> validation.caught # ""
          /\ ~fileExists => validation.caught = "FileNotFoundError"
          /\ (fileExists /\ fileRows = <<>>) =>
                validation.caught \in {"ValueError", "ReadError"}
          /\ validation.returned = "dict" =>
                /\ validation.warnings # <<>> <=> validation.timestamp_issues > 0
                /\ validation.sample_chunks = 0 =>
                      /\ validation.inspected = {}
                      /\ validation.total_rows_sampled = 0
                      /\ validation.timestamp_issues = 0
                      /\ validation.iterated
                            = NumChunks(fileRows, validation.chunk_size)

\* C30 witness: validate_csv with sample_chunks = 0 on a file of two rows
\* with a bad timestamp has returned a result without rows or warnings.
C30_Witness ==
    /\ caller = "validator"
    /\ validation.returned = "dict"
    /\ validation.sample_chunks = 0
    /\ Len(fileRows) = 2
    /\ Unparsable(fileRows) >= 1
    /\ validation.warnings = <<>>
    /\ validation.iterated = NumChunks(fileRows, validation.chunk_size)

====
